---- MODULE Spec2Model ----
(***************************************************************************)
(* State-machine model of the book catalogue service in src/server.js:     *)
(* the in-memory store (books, currentId) and the handlers that act on it, *)
(* the request counter, the two loggers and the logging middleware.        *)
(*                                                                         *)
(* Conventions.                                                            *)
(*  - A JavaScript string that the code lower-cases or collates (title,    *)
(*    author) is a sequence of one-character strings.                      *)
(*  - A number is held in hundredths: Num(2) is 2, Num(2) + 50 is 2.5.     *)
(*  - A query-string value is text: Absent (the parameter is missing),     *)
(*    Empty (""), Junk (text with no leading digits, like "abc") or        *)
(*    Dec(neg, whole, frac), the decimal literal [-]whole.frac with two    *)
(*    fractional digits.                                                   *)
(*  - `last` records the latest request and the response sent for it;      *)
(*    `issued` lists the ids returned by the successful creates, in order. *)
(*  - A level or logger name is a whole word; a logger-level parameter is  *)
(*    Absent or Str(word).                                                 *)
(*  - Three specifications: Spec (the store handlers from the empty store),*)
(*    QuerySpec (the query endpoints over the created stores) and LogSpec  *)
(*    (every endpoint behind the logging middleware).                      *)
(***************************************************************************)
EXTENDS Integers, Sequences, FiniteSets, TLC

VARIABLES books, currentId, last, issued,
          requestCounter, received, requestLoggerLevel, booksLoggerLevel,
          finishListeners, logged

\* The request counter, the two loggers and what hangs on them: `received`
\* counts the requests that entered the logging middleware, finishListeners
\* holds the 'finish' callbacks not yet run, `logged` the log calls of the
\* latest step, each with whether the logger wrote it.
logvars == <<requestCounter, received, requestLoggerLevel, booksLoggerLevel,
             finishListeners, logged>>

vars == <<books, currentId, last, issued, requestCounter, received,
          requestLoggerLevel, booksLoggerLevel, finishListeners, logged>>

\* Cap on the identifier allocator: create is modelled while currentId <= MaxId.
MaxId == 2

\* Cap on the request counter: requests are numbered while requestCounter < MaxRequests.
MaxRequests == 3

-----------------------------------------------------------------------------
(* Numbers and query-string text *)

Num(n) == n * 100

Absent == [k |-> "absent"]
Empty == [k |-> "empty"]
Junk == [k |-> "junk"]
Dec(neg, whole, frac) == [k |-> "dec", neg |-> neg, whole |-> whole, frac |-> frac]

NaN == [nan |-> TRUE]
Number(v) == [nan |-> FALSE, v |-> v]

\* The exact value of a decimal literal, in hundredths.
DecValue(s) == (IF s.neg THEN -1 ELSE 1) * (Num(s.whole) + s.frac)

\* JavaScript truthiness of a query-string value: undefined and "" are falsy.
Truthy(s) == s.k \notin {"absent", "empty"}

\* parseInt(text): the leading optionally signed digits, NaN when there are none.
ParseInt(s) ==
    IF s.k = "dec" THEN Number((IF s.neg THEN -1 ELSE 1) * Num(s.whole)) ELSE NaN

\* ToNumber(text), the coercion applied by `text <= 0`.
ToNumber(s) ==
    CASE s.k = "dec" -> Number(DecValue(s))
      [] s.k = "empty" -> Number(0)
      [] OTHER -> NaN

\* x >= y, x <= y on JavaScript numbers: false as soon as one side is NaN.
JsGe(x, y) == ~x.nan /\ ~y.nan /\ x.v >= y.v
JsLe(x, y) == ~x.nan /\ ~y.nan /\ x.v <= y.v

-----------------------------------------------------------------------------
(* Strings: case mapping and collation *)

Upper == <<"A", "B", "C", "X", "Y">>
Lower == <<"a", "b", "c", "x", "y">>

LowerChar(c) ==
    IF \E i \in DOMAIN Upper : Upper[i] = c
    THEN Lower[CHOOSE i \in DOMAIN Upper : Upper[i] = c]
    ELSE c

ToLowerCase(s) == [i \in DOMAIN s |-> LowerChar(s[i])]

\* Collation order of the characters used (lower case before upper case).
Collation == <<"a", "A", "b", "B", "c", "C", "x", "X", "y", "Y">>
CharRank(c) == CHOOSE i \in DOMAIN Collation : Collation[i] = c

RECURSIVE LocaleCompare(_, _)
LocaleCompare(a, b) ==
    IF a = <<>> /\ b = <<>> THEN 0
    ELSE IF a = <<>> THEN -1
    ELSE IF b = <<>> THEN 1
    ELSE IF CharRank(Head(a)) < CharRank(Head(b)) THEN -1
    ELSE IF CharRank(Head(a)) > CharRank(Head(b)) THEN 1
    ELSE LocaleCompare(Tail(a), Tail(b))

TitleCompareSwapped(a, b) == LocaleCompare(ToLowerCase(b.title), ToLowerCase(a.title))

\* The comparator of the list endpoint's sort.
TitleCompare(a, b) == LocaleCompare(ToLowerCase(a.title), ToLowerCase(b.title))

\* Array.prototype.sort with that comparator: a stable sort.
RECURSIVE InsertSorted(_, _)
InsertSorted(s, b) ==
    IF s = <<>> THEN <<b>>
    ELSE IF TitleCompare(b, Head(s)) < 0 THEN <<b>> \o s
    ELSE <<Head(s)>> \o InsertSorted(Tail(s), b)

RECURSIVE SortByTitle(_)
SortByTitle(s) ==
    IF s = <<>> THEN <<>>
    ELSE InsertSorted(SortByTitle(SubSeq(s, 1, Len(s) - 1)), s[Len(s)])

Includes(seq, x) == \E i \in DOMAIN seq : seq[i] = x

-----------------------------------------------------------------------------
(* Program constants *)

validGenres == <<"SCI_FI", "NOVEL", "HISTORY", "MANGA", "ROMANCE", "PROFESSIONAL">>

MinYear == 1940
MaxYear == 2100

-----------------------------------------------------------------------------
(* Inputs: the request bodies and query strings the handlers are driven with *)

Titles == {<<"b">>, <<"B">>, <<"a">>, <<"C">>}

Body(author, year, price, genres) ==
    [author |-> author, year |-> year, price |-> price, genres |-> genres]

\* The other fields of a POST body that passes the year and price checks
\* (price 0.5, 2, 0.01 and 3); the handler does not look at genres.
ValidProfiles ==
    { Body(<<"x">>, Num(1940), 50, <<"SCI_FI">>),
      Body(<<"Y">>, Num(2100), Num(2), <<"NOVEL", "HISTORY">>),
      Body(<<"x">>, Num(2100), 1, <<"HISTORY">>),
      Body(<<"Y">>, Num(1940), Num(3), <<"COMICS", "NOVEL">>) }

\* ... and of one that fails them: year 1939 or 2101, price 0 or -5.
InvalidProfiles ==
    { Body(<<"x">>, Num(1939), Num(2), <<"SCI_FI">>),
      Body(<<"Y">>, Num(2101), Num(2), <<"SCI_FI">>),
      Body(<<"x">>, Num(1940), 0, <<"SCI_FI">>),
      Body(<<"Y">>, Num(2100), Num(-5), <<"NOVEL">>),
      Body(<<"x">>, Num(2101), 0, <<"NOVEL">>) }

\* The bodies used when the store handlers are interleaved.
StoreProfiles == {p \in ValidProfiles : p.price \in {50, Num(2)}} \cup InvalidProfiles

Ids == 1..(MaxId + 1)

\* price= of PUT /book: "-1", "0.50", "3"
PriceTexts == {Dec(TRUE, 1, 0), Dec(FALSE, 0, 50), Dec(FALSE, 3, 0)}

\* genres= after split(","): "" splits to <<"">>.
GenreText(tags) == [k |-> "list", tags |-> tags]
GenreTexts == {GenreText(<<"">>), GenreText(<<"SCI_FI", "NOVEL">>), GenreText(<<"HISTORY">>),
               GenreText(<<"HISTORY", "NOT_REAL">>)}
CoreGenreTexts == {GenreText(<<"SCI_FI", "NOVEL">>), GenreText(<<"HISTORY", "NOT_REAL">>)}

Str(s) == [k |-> "str", s |-> s]
AuthorTexts == {Str(<<>>), Str(<<"X">>), Str(<<"y">>)}
CoreAuthorTexts == {Str(<<"X">>)}

\* price bounds: "", "abc", "2", "0.50", "2.50"
PriceBoundTexts == {Empty, Junk, Dec(FALSE, 2, 0), Dec(FALSE, 0, 50), Dec(FALSE, 2, 50)}
CorePriceBoundTexts == {Junk, Dec(FALSE, 2, 50)}
\* year bounds: "", "abc", "1940", "2100", "1940.50", "2099.50"
YearBoundTexts == {Empty, Junk, Dec(FALSE, 1940, 0), Dec(FALSE, 2100, 0),
                   Dec(FALSE, 1940, 50), Dec(FALSE, 2099, 50)}
CoreYearBoundTexts == {Junk, Dec(FALSE, 1940, 50)}

Fields == {"genres", "author", "priceBiggerThan", "priceLessThan",
           "yearBiggerThan", "yearLessThan"}
PriceFields == {"priceBiggerThan", "priceLessThan"}
YearFields == {"yearBiggerThan", "yearLessThan"}

Texts(f) ==
    CASE f = "genres" -> GenreTexts
      [] f = "author" -> AuthorTexts
      [] f \in PriceFields -> PriceBoundTexts
      [] OTHER -> YearBoundTexts

CoreTexts(f) ==
    CASE f = "genres" -> CoreGenreTexts
      [] f = "author" -> CoreAuthorTexts
      [] f \in PriceFields -> CorePriceBoundTexts
      [] OTHER -> CoreYearBoundTexts

\* The query string without any criterion.
NoCriteria == [f \in Fields |-> Absent]

Given(q) == {f \in Fields : q[f] # Absent}

\* The query strings used: none, every single criterion with every text, and every
\* pair of criteria with the core texts.
Queries ==
    {NoCriteria}
    \cup {[NoCriteria EXCEPT ![f] = t] : <<f, t>> \in UNION {{f} \X Texts(f) : f \in Fields}}
    \cup UNION {{[NoCriteria EXCEPT ![f] = t, ![g] = u] : <<t, u>> \in CoreTexts(f) \X CoreTexts(g)} :
                <<f, g>> \in {x \in Fields \X Fields : x[1] # x[2]}}

\* The query strings interleaved with the store operations.
StoreQueries ==
    {NoCriteria,
     [NoCriteria EXCEPT !.genres = GenreText(<<"HISTORY">>)],
     [NoCriteria EXCEPT !.genres = GenreText(<<"HISTORY", "NOT_REAL">>)]}

-----------------------------------------------------------------------------
(* Responses *)

Ok(result) == [status |-> 200, result |-> result]
Err(status, error, errorMessage) ==
    [status |-> status, error |-> error, errorMessage |-> errorMessage]

Init ==
    /\ books = <<>>
    /\ currentId = 1
    /\ last = [op |-> "none"]
    /\ issued = <<>>
    /\ requestCounter = 0
    /\ received = 0
    /\ requestLoggerLevel = "info"
    /\ booksLoggerLevel = "info"
    /\ finishListeners = {}
    /\ logged = <<>>

-----------------------------------------------------------------------------
(* POST /book *)

TitleTakenSameCase(title) == \E i \in DOMAIN books : books[i].title = title

\* books.find(book => book.title.toLowerCase() === title.toLowerCase())
TitleTaken(title) ==
    \E i \in DOMAIN books : ToLowerCase(books[i].title) = ToLowerCase(title)

YearOutOfRangeExclusive(year) == year <= Num(MinYear) \/ year >= Num(MaxYear)

\* year < 1940 || year > 2100
YearOutOfRange(year) == year < Num(MinYear) \/ year > Num(MaxYear)

NewIdFromLength == Len(books) + 1

NewIdLowestFree == CHOOSE n \in 1..(Len(books) + 1) : \A i \in DOMAIN books : books[i].id # n

\* id: currentId++ (the value before the increment)
NewId == currentId

CreateRejectedAfterAllocation(req, error, errorMessage) ==
    /\ last' = [op |-> "create", req |-> req, res |-> Err(409, error, errorMessage)]
    /\ currentId' = currentId + 1
    /\ UNCHANGED <<books, issued>>

\* The early returns of the handler: a 409 response and nothing else.
CreateRejected(req, error, errorMessage) ==
    /\ last' = [op |-> "create", req |-> req, res |-> Err(409, error, errorMessage)]
    /\ UNCHANGED <<books, currentId, issued>>

CreateBookYearFirst(title, author, year, price, genres) ==
    /\ currentId <= MaxId
    /\ LET req == [title |-> title, author |-> author, year |-> year,
                   price |-> price, genres |-> genres]
       IN
       IF YearOutOfRange(year) THEN
            CreateRejected(req, "InvalidYear",
                "Error: Can't create new Book that its year [year] is not in the accepted range [1940 -> 2100]")
       ELSE IF TitleTaken(title) THEN
            CreateRejected(req, "DuplicateTitle",
                "Error: Book with the title [title] already exists in the system")
       ELSE IF price <= 0 THEN
            CreateRejected(req, "InvalidPrice",
                "Error: Can't create new Book with negative price")
       ELSE
            /\ books' = Append(books, [id |-> NewId, title |-> title,
                                       author |-> author, year |-> year,
                                       price |-> price, genres |-> genres])
            /\ currentId' = currentId + 1
            /\ last' = [op |-> "create", req |-> req, res |-> Ok(NewId)]
            /\ issued' = Append(issued, NewId)

CreateBook(title, author, year, price, genres) ==
    /\ currentId <= MaxId
    /\ LET req == [title |-> title, author |-> author, year |-> year,
                   price |-> price, genres |-> genres]
       IN
       IF TitleTaken(title) THEN
            CreateRejected(req, "DuplicateTitle",
                "Error: Book with the title [title] already exists in the system")
       ELSE IF YearOutOfRange(year) THEN
            CreateRejected(req, "InvalidYear",
                "Error: Can't create new Book that its year [year] is not in the accepted range [1940 -> 2100]")
       ELSE IF price <= 0 THEN
            CreateRejected(req, "InvalidPrice",
                "Error: Can't create new Book with negative price")
       ELSE
            /\ books' = Append(books, [id |-> NewId, title |-> title,
                                       author |-> author, year |-> year,
                                       price |-> price, genres |-> genres])
            /\ currentId' = currentId + 1
            /\ last' = [op |-> "create", req |-> req, res |-> Ok(NewId)]
            /\ issued' = Append(issued, NewId)

-----------------------------------------------------------------------------
(* filterBooks *)

GenresGiven(q) == q.genres.k = "list" /\ q.genres.tags # <<"">>
AuthorGiven(q) == q.author.k = "str" /\ q.author.s # <<>>

\* genreList.every(genre => validGenres.includes(genre))
GenreListValid(tags) == \A i \in DOMAIN tags : Includes(validGenres, tags[i])

\* The query makes filterBooks throw Error("Invalid genre value").
Throws(q) == GenresGiven(q) /\ ~GenreListValid(q.genres.tags)

\* book.genres.some(genre => genreList.includes(genre))
GenreMatchAll(book, tags) == \A i \in DOMAIN book.genres : Includes(tags, book.genres[i])

GenreMatch(book, tags) == \E i \in DOMAIN book.genres : Includes(tags, book.genres[i])

AuthorMatch(book, author) == ToLowerCase(book.author) = ToLowerCase(author)

AtLeastUnlessNaN(x, text) == ParseInt(text).nan \/ x >= ParseInt(text).v

AtLeast(x, text) == JsGe(Number(x), ParseInt(text))
AtMost(x, text) == JsLe(Number(x), ParseInt(text))

ByGenres(list, q) ==
    IF GenresGiven(q)
    THEN LET Test(b) == GenreMatch(b, q.genres.tags) IN SelectSeq(list, Test)
    ELSE list

ByAuthorOfStore(list, q) ==
    IF AuthorGiven(q)
    THEN LET Test(b) == AuthorMatch(b, q.author.s) IN SelectSeq(books, Test)
    ELSE list

ByAuthor(list, q) ==
    IF AuthorGiven(q)
    THEN LET Test(b) == AuthorMatch(b, q.author.s) IN SelectSeq(list, Test)
    ELSE list

ByPriceBiggerThan(list, q) ==
    IF Truthy(q.priceBiggerThan)
    THEN LET Test(b) == AtLeast(b.price, q.priceBiggerThan) IN SelectSeq(list, Test)
    ELSE list

ByPriceLessThan(list, q) ==
    IF Truthy(q.priceLessThan)
    THEN LET Test(b) == AtMost(b.price, q.priceLessThan) IN SelectSeq(list, Test)
    ELSE list

ByYearBiggerThan(list, q) ==
    IF Truthy(q.yearBiggerThan)
    THEN LET Test(b) == AtLeast(b.year, q.yearBiggerThan) IN SelectSeq(list, Test)
    ELSE list

ByYearLessThan(list, q) ==
    IF Truthy(q.yearLessThan)
    THEN LET Test(b) == AtMost(b.year, q.yearLessThan) IN SelectSeq(list, Test)
    ELSE list

\* The array filterBooks returns when it does not throw.
FilterBooks(q) ==
    LET f1 == ByGenres(books, q)
        f2 == ByAuthor(f1, q)
        f3 == ByPriceBiggerThan(f2, q)
        f4 == ByPriceLessThan(f3, q)
        f5 == ByYearBiggerThan(f4, q)
    IN  ByYearLessThan(f5, q)

\* Some filter() ran, so the array returned is a new one; otherwise it is `books` itself.
FilterApplied(q) ==
    \/ GenresGiven(q) \/ AuthorGiven(q)
    \/ Truthy(q.priceBiggerThan) \/ Truthy(q.priceLessThan)
    \/ Truthy(q.yearBiggerThan) \/ Truthy(q.yearLessThan)

-----------------------------------------------------------------------------
(* GET /books/total, GET /books *)

InvalidGenre == Err(400, "InvalidGenre", "Invalid genre value")

\* The response of GET /books/total.
TotalResponse(q) == IF Throws(q) THEN InvalidGenre ELSE Ok(Len(FilterBooks(q)))

\* The response of GET /books: the filtered array, sorted, each record projected.
ListResponse(q) == IF Throws(q) THEN InvalidGenre ELSE Ok(SortByTitle(FilterBooks(q)))

GetTotal(q) ==
    /\ last' = [op |-> "total", req |-> q, res |-> TotalResponse(q)]
    /\ UNCHANGED <<books, currentId, issued>>

\* What filteredBooks.sort(...) leaves in `books`: sort() sorts its array in place.
StoreAfterSort(q) == IF FilterApplied(q) THEN books ELSE SortByTitle(books)

GetBooks(q) ==
    /\ last' = [op |-> "list", req |-> q, res |-> ListResponse(q)]
    /\ books' = IF Throws(q) THEN books ELSE StoreAfterSort(q)
    /\ UNCHANGED <<currentId, issued>>

-----------------------------------------------------------------------------
(* GET /book, PUT /book, DELETE /book *)

\* books.findIndex(book => book.id == id) + 1, so 0 when there is none.
IndexOfId(id) ==
    IF \E i \in DOMAIN books : books[i].id = id
    THEN CHOOSE i \in DOMAIN books :
            books[i].id = id /\ \A j \in 1..(i - 1) : books[j].id # id
    ELSE 0

NotFound(op, req) ==
    /\ last' = [op |-> op, req |-> req,
                res |-> Err(404, "NotFound", "Error: no such Book with id [id]")]
    /\ UNCHANGED <<books, currentId, issued>>

GetBook(id) ==
    LET i == IndexOfId(id) IN
    IF i = 0 THEN NotFound("get", [id |-> id])
    ELSE /\ last' = [op |-> "get", req |-> [id |-> id], res |-> Ok(books[i])]
         /\ UNCHANGED <<books, currentId, issued>>

\* book.price = parseInt(price)
NewPrice(price) == ParseInt(price).v

\* price <= 0, on the query-string text
PriceRejected(price) == JsLe(ToNumber(price), Number(0))

UpdatePrice(id, price) ==
    LET i == IndexOfId(id)
        req == [id |-> id, price |-> price]
    IN
    IF i = 0 THEN NotFound("update", req)
    ELSE IF PriceRejected(price) THEN
        /\ last' = [op |-> "update", req |-> req,
                    res |-> Err(409, "InvalidPrice",
                                "Error: price update for book [id] must be a positive integer")]
        /\ UNCHANGED <<books, currentId, issued>>
    ELSE
        /\ books' = [books EXCEPT ![i].price = NewPrice(price)]
        /\ last' = [op |-> "update", req |-> req, res |-> Ok(books[i].price)]
        /\ UNCHANGED <<currentId, issued>>

SpliceToEnd(i) == SubSeq(books, 1, i - 1)

\* books.splice(bookIndex, 1)
Splice(i) == SubSeq(books, 1, i - 1) \o SubSeq(books, i + 1, Len(books))

DeleteBook(id) ==
    LET i == IndexOfId(id) IN
    IF i = 0 THEN NotFound("delete", [id |-> id])
    ELSE /\ books' = Splice(i)
         /\ last' = [op |-> "delete", req |-> [id |-> id], res |-> Ok(Len(Splice(i)))]
         /\ UNCHANGED <<currentId, issued>>

-----------------------------------------------------------------------------

\* A handler as the store sees it. No handler reads the request counter or a
\* logger to decide what it does to the store or what it answers, so Spec and
\* QuerySpec follow the store and hold the logging state; LogSpec below runs
\* the same handlers behind the logging middleware.
OnStore(Handler) == Handler /\ UNCHANGED logvars

Next ==
    \/ \E t \in Titles, p \in StoreProfiles :
            OnStore(CreateBook(t, p.author, p.year, p.price, p.genres))
    \/ \E q \in StoreQueries : OnStore(GetTotal(q))
    \/ \E q \in StoreQueries : OnStore(GetBooks(q))
    \/ \E id \in Ids : OnStore(GetBook(id))
    \/ \E id \in Ids, price \in PriceTexts : OnStore(UpdatePrice(id, price))
    \/ \E id \in Ids : OnStore(DeleteBook(id))

\* The store life cycle: every handler of the store, from the empty store.
Spec == Init /\ [][Next]_vars

-----------------------------------------------------------------------------
(* The query engine on its own: the two query endpoints over every store of at
   most MaxId records that creates alone have built. *)

\* The valid bodies the stores are built from: two for each title up to letter case.
Catalogue ==
    { c \in Titles \X ValidProfiles :
        \/ c[1] = <<"b">> /\ c[2].price = 50
        \/ c[1] = <<"B">> /\ c[2].price = Num(2)
        \/ c[1] = <<"a">> /\ c[2].price \in {Num(2), 1}
        \/ c[1] = <<"C">> /\ c[2].price \in {50, Num(3)} }

CreatedStores ==
    UNION { { [i \in 1..n |-> [id |-> i, title |-> c[i][1], author |-> c[i][2].author,
                               year |-> c[i][2].year, price |-> c[i][2].price,
                               genres |-> c[i][2].genres]] :
              c \in { d \in [1..n -> Catalogue] :
                        \A i, j \in 1..n :
                            i # j => ToLowerCase(d[i][1]) # ToLowerCase(d[j][1]) } } :
            n \in 0..MaxId }

QueryInit ==
    /\ books \in CreatedStores
    /\ currentId = Len(books) + 1
    /\ issued = [i \in 1..Len(books) |-> i]
    /\ last = [op |-> "none"]
    /\ requestCounter = Len(books)
    /\ received = Len(books)
    /\ requestLoggerLevel = "info"
    /\ booksLoggerLevel = "info"
    /\ finishListeners = {}
    /\ logged = <<>>

QueryNext ==
    \/ \E q \in Queries : OnStore(GetTotal(q))
    \/ \E q \in Queries : OnStore(GetBooks(q))

QuerySpec == QueryInit /\ [][QueryNext]_vars

-----------------------------------------------------------------------------
(* The request counter and the two loggers *)

\* The names by which the log-level endpoints know the loggers.
RequestLoggerName == "request-logger"
BooksLoggerName == "books-logger"

\* const validLevels = ["error", "warn", "info", "http", "debug"]
validLevels == <<"error", "warn", "info", "http", "debug">>

\* The texts of a logger-level parameter: missing, or a level name as sent.
LevelTexts == {Absent, Str("error"), Str("DEBUG"), Str("verbose")}

\* The texts of a logger-name parameter.
LoggerNames == {RequestLoggerName, BooksLoggerName, "app-logger"}

\* String.prototype.toLowerCase and toUpperCase over the words of the model.
ToLowerCaseWord(w) ==
    CASE w = "ERROR" -> "error" [] w = "WARN" -> "warn" [] w = "INFO" -> "info"
      [] w = "HTTP" -> "http" [] w = "DEBUG" -> "debug" [] w = "VERBOSE" -> "verbose"
      [] OTHER -> w

ToUpperCaseWord(w) ==
    CASE w = "error" -> "ERROR" [] w = "warn" -> "WARN" [] w = "info" -> "INFO"
      [] w = "http" -> "HTTP" [] w = "debug" -> "DEBUG" [] w = "verbose" -> "VERBOSE"
      [] OTHER -> w

\* The severities of the loggers, most severe first, and whether a logger whose
\* level is `threshold` writes a call made at `level`.
Severities == <<"error", "warn", "info", "http", "debug">>
SeverityIndex(level) == CHOOSE i \in DOMAIN Severities : Severities[i] = level
WrittenAtAnyLevel(level, threshold) == TRUE

Written(level, threshold) ==
    /\ Includes(Severities, threshold)
    /\ SeverityIndex(level) <= SeverityIndex(threshold)

\* logger.level of the logger a name selects.
LevelOf(loggerName) ==
    IF loggerName = RequestLoggerName THEN requestLoggerLevel ELSE booksLoggerLevel

\* A call logger.<level>(message, { requestId }) made for the op-th request received.
LogCall(loggerName, level, requestId, op) ==
    [logger |-> loggerName, level |-> level, requestId |-> requestId, op |-> op,
     written |-> Written(level, LevelOf(loggerName))]

\* req.path of each operation, and req.path.startsWith("/book").
PathOf(op) ==
    CASE op = "create" -> "/book" [] op = "get" -> "/book" [] op = "update" -> "/book"
      [] op = "delete" -> "/book" [] op = "total" -> "/books/total"
      [] op = "list" -> "/books" [] op = "health" -> "/books/health"
      [] OTHER -> "/logs/level"
StartsWithBook(path) == path \in {"/book", "/books", "/books/total", "/books/health"}

\* The error-handling middleware: one error call, on the logger the path selects,
\* with requestId read from the counter.
ErrorHandlerCalls(path, op) ==
    <<LogCall(IF StartsWithBook(path) THEN BooksLoggerName ELSE RequestLoggerName,
              "error", requestCounter', op)>>

\* The booksLogger calls of the handler that answered l, each with
\* { requestId: requestCounter }.
HandlerCalls(l, op) ==
    LET B(level) == LogCall(BooksLoggerName, level, requestCounter', op) IN
    IF l.res.status = 500 THEN ErrorHandlerCalls(PathOf(l.op), op)
    ELSE IF l.op \in {"create", "update", "delete"} THEN
        IF l.res.status = 200 THEN <<B("info"), B("debug")>> ELSE <<B("error")>>
    ELSE IF l.op = "get" THEN
        IF l.res.status = 200 THEN <<B("debug")>> ELSE <<B("error")>>
    ELSE IF l.op \in {"total", "list"} THEN
        IF l.res.status = 200 THEN <<B("info")>> ELSE <<>>
    ELSE <<>>

RequestCounterTwice == requestCounter + 2

\* requestCounter++
RequestCounterNext == requestCounter + 1

\* The logging middleware around a handler: number the request, log it at info
\* with the number just taken, register the 'finish' callback that holds that
\* number, then run the handler, which logs with the counter's value.
Middleware(Handler) ==
    /\ requestCounter < MaxRequests
    /\ requestCounter' = RequestCounterNext
    /\ received' = received + 1
    /\ Handler
    /\ logged' = <<LogCall(RequestLoggerName, "info", requestCounter', received')>>
                    \o HandlerCalls(last', received')
    /\ finishListeners' = finishListeners
                            \cup {[requestId |-> requestCounter', op |-> received']}

\* A store handler behind the middleware: it leaves the loggers' levels.
StoreRequest(Handler) ==
    Middleware(Handler /\ UNCHANGED <<requestLoggerLevel, booksLoggerLevel>>)

FinishRequestIdGlobal(listener) == requestCounter

\* The requestId the 'finish' callback logs with: the constant of its closure.
FinishRequestId(listener) == listener.requestId

\* res.on("finish", ...): the callback of an answered request runs, at any later time.
Finish(listener) ==
    /\ listener \in finishListeners
    /\ finishListeners' = finishListeners \ {listener}
    /\ logged' = <<LogCall(RequestLoggerName, "debug", FinishRequestId(listener),
                           listener.op)>>
    /\ UNCHANGED <<books, currentId, last, issued, requestCounter, received,
                   requestLoggerLevel, booksLoggerLevel>>

\* GET /books/health
Health ==
    /\ last' = [op |-> "health", req |-> [path |-> "/books/health"], res |-> Ok("OK")]
    /\ UNCHANGED <<books, currentId, issued, requestLoggerLevel, booksLoggerLevel>>

InvalidLoggerName == Err(400, "UnknownChannel", "Error: Invalid logger name")
InvalidLoggerLevel == Err(400, "InvalidSeverity", "Error: Invalid logger level")
InternalServerError == Err(500, "InternalError", "Internal Server Error")

\* loggerName === "request-logger" or loggerName === "books-logger"
KnownLogger(loggerName) == loggerName \in {RequestLoggerName, BooksLoggerName}

\* GET /logs/level
GetLevel(loggerName) ==
    /\ last' = [op |-> "getLevel", req |-> [name |-> loggerName],
                res |-> IF KnownLogger(loggerName)
                        THEN Ok(ToUpperCaseWord(LevelOf(loggerName)))
                        ELSE InvalidLoggerName]
    /\ UNCHANGED <<books, currentId, issued, requestLoggerLevel, booksLoggerLevel>>

ValidLevelSameCase(loggerLevel) == Includes(validLevels, loggerLevel.s)

\* validLevels.includes(loggerLevel.toLowerCase())
ValidLevel(loggerLevel) == Includes(validLevels, ToLowerCaseWord(loggerLevel.s))

NewLevelAsSent(loggerLevel) == loggerLevel.s

\* logger.level = loggerLevel.toLowerCase()
NewLevel(loggerLevel) == ToLowerCaseWord(loggerLevel.s)

\* PUT /logs/level. A missing logger-level makes loggerLevel.toLowerCase() throw,
\* which the error-handling middleware answers.
SetLevel(loggerName, loggerLevel) ==
    LET req == [name |-> loggerName, level |-> loggerLevel]
        Answer(res) == last' = [op |-> "setLevel", req |-> req, res |-> res]
    IN
    /\ UNCHANGED <<books, currentId, issued>>
    /\ IF ~KnownLogger(loggerName) THEN
            /\ Answer(InvalidLoggerName)
            /\ UNCHANGED <<requestLoggerLevel, booksLoggerLevel>>
       ELSE IF loggerLevel.k = "absent" THEN
            /\ Answer(InternalServerError)
            /\ UNCHANGED <<requestLoggerLevel, booksLoggerLevel>>
       ELSE IF ~ValidLevel(loggerLevel) THEN
            /\ Answer(InvalidLoggerLevel)
            /\ UNCHANGED <<requestLoggerLevel, booksLoggerLevel>>
       ELSE
            /\ IF loggerName = RequestLoggerName
               THEN /\ requestLoggerLevel' = NewLevel(loggerLevel)
                    /\ UNCHANGED booksLoggerLevel
               ELSE /\ booksLoggerLevel' = NewLevel(loggerLevel)
                    /\ UNCHANGED requestLoggerLevel
            /\ Answer(Ok(ToUpperCaseWord(NewLevel(loggerLevel))))

\* The POST bodies of LogSpec: one valid body whose genres name a tag outside
\* validGenres, and one with a year out of range.
LogBodies ==
    { Body(<<"Y">>, Num(1940), Num(3), <<"COMICS", "NOVEL">>),
      Body(<<"x">>, Num(2101), 50, <<"SCI_FI">>) }

\* The titles of LogSpec: one title in its two letter cases.
LogTitles == {<<"C">>, <<"c">>}

LogNext ==
    \/ \E t \in LogTitles, p \in LogBodies :
            StoreRequest(CreateBook(t, p.author, p.year, p.price, p.genres))
    \/ StoreRequest(GetTotal(NoCriteria))
    \/ StoreRequest(GetBooks([NoCriteria EXCEPT !.genres = GenreText(<<"COMICS">>)]))
    \/ \E id \in 1..2 : StoreRequest(GetBook(id))
    \/ StoreRequest(UpdatePrice(1, Dec(FALSE, 3, 0)))
    \/ StoreRequest(DeleteBook(1))
    \/ Middleware(Health)
    \/ \E n \in LoggerNames : Middleware(GetLevel(n))
    \/ \E n \in LoggerNames, l \in LevelTexts : Middleware(SetLevel(n, l))
    \/ \E listener \in finishListeners : Finish(listener)

\* Every endpoint behind the logging middleware, with the 'finish' callbacks,
\* from the state the server starts in.
LogSpec == Init /\ [][LogNext]_vars

-----------------------------------------------------------------------------
(* Properties *)

Failed(l, error) == l.res.status # 200 /\ l.res.error = error
Succeeded(l) == l.res.status = 200

IsQuery(l) == l.op \in {"total", "list"}
IsWrite(l) == l.op \in {"create", "update", "delete"}

\* The live record with identifier id (there is at most one).
BookOf(store, id) == store[CHOOSE i \in DOMAIN store : store[i].id = id]
IdsOf(store) == {store[i].id : i \in DOMAIN store}

TitlesUnique ==
    \A i, j \in DOMAIN books :
        i # j => ToLowerCase(books[i].title) # ToLowerCase(books[j].title)

\* C1: no two live records ever have titles that are equal when compared
\* case-insensitively, and a create whose title matches a live record's title
\* case-insensitively fails with DuplicateTitle.
C1_TitlesUnique ==
    /\ []TitlesUnique
    /\ [][(/\ last'.op = "create"
           /\ \E i \in DOMAIN books :
                ToLowerCase(books[i].title) = ToLowerCase(last'.req.title))
          => Failed(last', "DuplicateTitle")]_vars

\* C1 witness: a create was refused for a title that differs from a live record's
\* title only by letter case.
C1_Witness ==
    /\ last.op = "create"
    /\ Failed(last, "DuplicateTitle")
    /\ \E i \in DOMAIN books :
        /\ books[i].title # last.req.title
        /\ ToLowerCase(books[i].title) = ToLowerCase(last.req.title)

\* C2: the ids returned by the successful creates are 1, 2, 3, ... in that order,
\* whatever else happened in between; so none is issued twice, and every live
\* record carries an id that was issued.
C2_IdsConsecutive ==
    /\ \A i \in DOMAIN issued : issued[i] = i
    /\ IdsOf(books) \subseteq {issued[i] : i \in DOMAIN issued}
    /\ \A i, j \in DOMAIN books : i # j => books[i].id # books[j].id

\* C2 witness: the second successful create came after the first record was
\* deleted and returned 2.
C2_Witness ==
    /\ last.op = "create"
    /\ Succeeded(last)
    /\ last.res.result = 2
    /\ issued = <<1, 2>>
    /\ IdsOf(books) = {2}

\* C3 (as claimed): every live record has a price above zero.
C3_PricePositive == \A i \in DOMAIN books : books[i].price > 0

\* C4 (as claimed): a query leaves the collection, its order, every record and
\* the next-id counter as they were.
C4_QueriesLeaveStore ==
    [][IsQuery(last') => (books' = books /\ currentId' = currentId)]_vars

BoundFields == PriceFields \cup YearFields

\* The catalogue of genre tags as the specification lists it.
GenreCatalog == {"SCI_FI", "NOVEL", "HISTORY", "MANGA", "ROMANCE", "PROFESSIONAL"}

Elements(seq) == {seq[i] : i \in DOMAIN seq}

\* A genres criterion was supplied (a non-empty text) ...
GenresSupplied(q) == q.genres # Absent /\ q.genres # GenreText(<<"">>)
\* ... and one of its tags is not in the catalogue.
GenresUnknown(q) == GenresSupplied(q) /\ ~(Elements(q.genres.tags) \subseteq GenreCatalog)

\* The response either query endpoint gives to q in the current state.
Response(op, q) == IF op = "total" THEN TotalResponse(q) ELSE ListResponse(q)

\* The response that reports no match.
NoMatch(op) == IF op = "total" THEN Ok(0) ELSE Ok(<<>>)

\* The ids a successful query response stands for, given the ids it should hold.
Reports(l, ids) ==
    /\ Succeeded(l)
    /\ IF l.op = "total" THEN l.res.result = Cardinality(ids)
       ELSE IdsOf(l.res.result) = ids /\ Len(l.res.result) = Cardinality(ids)

\* C5 (as claimed): a query with a non-numeric bound answers as the same query
\* without that bound.
C5_JunkBoundIgnored ==
    \A f \in BoundFields :
        (IsQuery(last) /\ last.req[f] = Junk)
            => last.res = Response(last.op, [last.req EXCEPT ![f] = Absent])

\* C5 (amended): a non-numeric bound raises no error of its own but excludes
\* every record, so the query reports no match unless the genres criterion is
\* invalid; an empty bound is what is treated as absent.
C5_JunkBoundMatchesNothing ==
    \A f \in BoundFields :
        /\ (IsQuery(last) /\ last.req[f] = Junk)
            => IF GenresUnknown(last.req) THEN Failed(last, "InvalidGenre")
               ELSE last.res = NoMatch(last.op)
        /\ (IsQuery(last) /\ last.req[f] = Empty)
            => last.res = Response(last.op, [last.req EXCEPT ![f] = Absent])

\* C5 witness: a count over a non-empty store whose only criterion is a
\* non-numeric price-bigger-than, answered 0.
C5_Witness ==
    /\ last.op = "total"
    /\ Given(last.req) = {"priceBiggerThan"}
    /\ last.req.priceBiggerThan = Junk
    /\ last.res = Ok(0)
    /\ books # <<>>

\* C6: a create, updatePrice or delete that fails leaves the live records, their
\* fields and order, and the next-id counter exactly as they were.
C6_FailedWritesChangeNothing ==
    [][(IsWrite(last') /\ ~Succeeded(last'))
        => (books' = books /\ currentId' = currentId)]_vars

\* C6 witness: an updatePrice of a live record was refused with InvalidPrice.
C6_Witness ==
    /\ last.op = "update"
    /\ Failed(last, "InvalidPrice")
    /\ last.req.id \in IdsOf(books)

\* C7 (as claimed): an updatePrice of a live record that succeeds returns the
\* price held before and leaves exactly the requested price; on an id without
\* live record it fails with NotFound.
C7_UpdateSetsPrice ==
    [][last'.op = "update"
        => IF last'.req.id \in IdsOf(books)
           THEN Succeeded(last')
                => /\ last'.res.result = BookOf(books, last'.req.id).price
                   /\ BookOf(books', last'.req.id).price = DecValue(last'.req.price)
           ELSE Failed(last', "NotFound")]_vars

\* C8 (as claimed): with a single numeric bound x, the records reported are
\* exactly those with price >= x, price <= x, year >= x or year <= x.
C8_BoundsExact ==
    \A f \in BoundFields :
        (IsQuery(last) /\ Given(last.req) = {f} /\ last.req[f].k = "dec")
            => LET x == DecValue(last.req[f])
                   Within(b) ==
                       CASE f = "priceBiggerThan" -> b.price >= x
                         [] f = "priceLessThan" -> b.price <= x
                         [] f = "yearBiggerThan" -> b.year >= x
                         [] OTHER -> b.year <= x
               IN  Reports(last, {b.id : b \in {c \in Elements(books) : Within(c)}})

\* C9: a genres criterion with a tag outside the catalogue makes both query
\* endpoints fail with InvalidGenre, whatever the store and the other criterion;
\* otherwise the query succeeds, reports only records with a genre among the
\* requested tags, and reports all of them when genres is the only criterion.
C9_GenresCriterion ==
    (IsQuery(last) /\ GenresSupplied(last.req))
        => LET tags == Elements(last.req.genres.tags)
               matching == {b.id : b \in {c \in Elements(books) :
                                            Elements(c.genres) \cap tags # {}}}
           IN  IF GenresUnknown(last.req)
               THEN Failed(last, "InvalidGenre") /\ last.res.status = 400
               ELSE /\ Succeeded(last)
                    /\ Given(last.req) = {"genres"} => Reports(last, matching)
                    /\ IF last.op = "total" THEN last.res.result <= Cardinality(matching)
                       ELSE IdsOf(last.res.result) \subseteq matching

\* C9 witness: a list whose only criterion is a valid genres list kept some
\* records of the store and dropped others.
C9_Witness ==
    /\ last.op = "list"
    /\ Given(last.req) = {"genres"}
    /\ Succeeded(last)
    /\ last.res.result # <<>>
    /\ Len(last.res.result) < Len(books)

\* Case-insensitive order of titles, letter by letter.
FoldRank(c) ==
    CASE c \in {"a", "A"} -> 1
      [] c \in {"b", "B"} -> 2
      [] c \in {"c", "C"} -> 3
      [] c \in {"x", "X"} -> 4
      [] OTHER -> 5

RECURSIVE FoldLeq(_, _)
FoldLeq(s, t) ==
    IF s = <<>> THEN TRUE
    ELSE IF t = <<>> THEN FALSE
    ELSE IF FoldRank(Head(s)) # FoldRank(Head(t)) THEN FoldRank(Head(s)) < FoldRank(Head(t))
    ELSE FoldLeq(Tail(s), Tail(t))

\* C10: when the criteria raise no error, the list endpoint returns exactly the
\* records the count endpoint counts for the same criteria, each once and as
\* stored, in non-decreasing case-insensitive order of title.
C10_ListMatchesCount ==
    (last.op = "list" /\ ~GenresUnknown(last.req))
        => /\ Succeeded(last)
           /\ TotalResponse(last.req) = Ok(Len(last.res.result))
           /\ IdsOf(last.res.result) = IdsOf(FilterBooks(last.req))
           /\ Cardinality(IdsOf(last.res.result)) = Len(last.res.result)
           /\ \A i \in DOMAIN last.res.result :
                last.res.result[i] = BookOf(books, last.res.result[i].id)
           /\ \A i, j \in DOMAIN last.res.result :
                i < j => FoldLeq(last.res.result[i].title, last.res.result[j].title)

\* C10 witness: a filtered list of two records, one with an upper-case title,
\* returned in another order than the store holds them.
C10_Witness ==
    /\ last.op = "list"
    /\ Succeeded(last)
    /\ Len(last.res.result) = 2
    /\ last.res.result # FilterBooks(last.req)
    /\ last.res.result[2].title = <<"C">>

\* The store without the record of identifier id, the others in their order.
Without(store, id) == LET Keep(b) == b.id # id IN SelectSeq(store, Keep)

\* C11: a successful delete(id) removes exactly the record with that id, keeps
\* the other records and the next-id counter, and returns the new live count;
\* an id that was issued and is no longer live never becomes live again, and
\* get, updatePrice and delete on an id without live record fail with NotFound.
C11_DeleteIsFinal ==
    /\ [][(last'.op = "delete" /\ Succeeded(last'))
            => /\ last'.req.id \in IdsOf(books)
               /\ books' = Without(books, last'.req.id)
               /\ currentId' = currentId
               /\ last'.res.result = Len(books) - 1]_vars
    /\ [][\A id \in Elements(issued) : id \notin IdsOf(books) => id \notin IdsOf(books')]_vars
    /\ [][(last'.op \in {"get", "update", "delete"} /\ last'.req.id \notin IdsOf(books))
            => Failed(last', "NotFound")]_vars

\* C11 witness: an updatePrice on an id that was issued and then deleted was
\* refused with NotFound while another record is live.
C11_Witness ==
    /\ last.op = "update"
    /\ Failed(last, "NotFound")
    /\ last.req.id \in Elements(issued)
    /\ books # <<>>

\* No live record has a title equal to this one up to letter case.
TitleFree(title) ==
    \A i \in DOMAIN books : ToLowerCase(books[i].title) # ToLowerCase(title)

\* C12: every live record has 1940 <= year <= 2100. A create with a year below
\* 1940 or above 2100 never succeeds and, its title being free, fails with
\* InvalidYear; a create with year 1940 or 2100, a free title and a price above
\* zero succeeds; no step changes the year of a record that stays live.
C12_YearInRange ==
    /\ [](\A i \in DOMAIN books : books[i].year >= Num(1940) /\ books[i].year <= Num(2100))
    /\ [][last'.op = "create"
            => /\ (last'.req.year < Num(1940) \/ last'.req.year > Num(2100))
                    => /\ ~Succeeded(last')
                       /\ TitleFree(last'.req.title) => Failed(last', "InvalidYear")
               /\ (/\ last'.req.year \in {Num(1940), Num(2100)}
                   /\ TitleFree(last'.req.title)
                   /\ last'.req.price > 0)
                    => Succeeded(last')]_vars
    /\ [][\A id \in IdsOf(books) \cap IdsOf(books') :
            BookOf(books', id).year = BookOf(books, id).year]_vars

\* C12 witness: a record of year 2100 is live and a create with year 2101 was
\* refused with InvalidYear.
C12_Witness ==
    /\ last.op = "create"
    /\ Failed(last, "InvalidYear")
    /\ last.req.year = Num(2101)
    /\ \E i \in DOMAIN books : books[i].year = Num(2100)

\* C13: a create fails with DuplicateTitle if its title is taken, otherwise with
\* InvalidYear if its year is out of range, otherwise with InvalidPrice if its
\* price is not above zero, and succeeds otherwise.
C13_FirstViolation ==
    [][last'.op = "create"
        => IF ~TitleFree(last'.req.title) THEN Failed(last', "DuplicateTitle")
           ELSE IF last'.req.year < Num(1940) \/ last'.req.year > Num(2100)
                THEN Failed(last', "InvalidYear")
           ELSE IF last'.req.price <= 0 THEN Failed(last', "InvalidPrice")
           ELSE Succeeded(last')]_vars

\* C13 witness: a create with a taken title, a year out of range and a price of
\* zero was refused with DuplicateTitle.
C13_Witness ==
    /\ last.op = "create"
    /\ Failed(last, "DuplicateTitle")
    /\ last.req.year = Num(2101)
    /\ last.req.price = 0

\* C14 (as claimed): the genres of every live record are a non-empty set of
\* tags of the catalogue.
C14_GenresInCatalogue ==
    \A i \in DOMAIN books :
        /\ books[i].genres # <<>>
        /\ Elements(books[i].genres) \subseteq GenreCatalog

\* The channels and the severity scale of the log levels, most severe first.
Channels == {"request-logger", "books-logger"}
Scale == <<"error", "warn", "info", "http", "debug">>
ScaleRank(level) == CHOOSE i \in DOMAIN Scale : Scale[i] = level
Threshold(channel) ==
    IF channel = "request-logger" THEN requestLoggerLevel ELSE booksLoggerLevel
ThresholdAfter(channel) ==
    IF channel = "request-logger" THEN requestLoggerLevel' ELSE booksLoggerLevel'

\* The level of the scale that a level name denotes, letter case ignored.
Denotes(level, name) == level \in Elements(Scale) /\ level = ToLowerCaseWord(name.s)
InScale(name) == name.k = "str" /\ \E level \in Elements(Scale) : Denotes(level, name)

\* C15: both thresholds start at info; a successful setLevel(channel, levelName)
\* sets that channel's threshold to the level the name denotes, letter case
\* ignored, and leaves the other channel's; no other step changes a threshold;
\* getLevel(channel) returns the channel's threshold.
C15_ThresholdFollowsSetLevel ==
    /\ [](received = 0 => \A c \in Channels : Threshold(c) = "info")
    /\ [][(last'.op = "setLevel" /\ Succeeded(last') /\ received' = received + 1)
            => /\ last'.req.name \in Channels
               /\ Denotes(ThresholdAfter(last'.req.name), last'.req.level)
               /\ \A c \in Channels \ {last'.req.name} : ThresholdAfter(c) = Threshold(c)]_vars
    /\ [][~(last'.op = "setLevel" /\ Succeeded(last') /\ received' = received + 1)
            => \A c \in Channels : ThresholdAfter(c) = Threshold(c)]_vars
    /\ [][(last'.op = "getLevel" /\ last'.req.name \in Channels /\ received' = received + 1)
            => /\ Succeeded(last')
               /\ ToLowerCaseWord(last'.res.result) = Threshold(last'.req.name)]_vars

\* C15 witness: after setLevel on books-logger with "DEBUG" and store operations,
\* getLevel(books-logger) returned DEBUG while request-logger is still at info.
C15_Witness ==
    /\ last.op = "getLevel"
    /\ last.req.name = "books-logger"
    /\ Succeeded(last)
    /\ last.res.result = "DEBUG"
    /\ requestLoggerLevel = "info"
    /\ books # <<>>

\* C16: setLevel fails with UnknownChannel for a channel name other than
\* "request-logger" and "books-logger", whatever the level name; for a known
\* channel it fails with InvalidSeverity exactly when the level name given is
\* not one of error, warn, info, http, debug up to letter case; getLevel fails
\* with UnknownChannel for an unknown channel name; a failed setLevel or
\* getLevel leaves both thresholds as they were.
C16_LevelErrors ==
    /\ [][(last'.op = "setLevel" /\ received' = received + 1)
            => IF last'.req.name \notin Channels THEN Failed(last', "UnknownChannel")
               ELSE last'.req.level.k = "str"
                    => IF InScale(last'.req.level) THEN Succeeded(last')
                       ELSE Failed(last', "InvalidSeverity")]_vars
    /\ [][(last'.op = "getLevel" /\ received' = received + 1 /\ last'.req.name \notin Channels)
            => Failed(last', "UnknownChannel")]_vars
    /\ [][(last'.op \in {"setLevel", "getLevel"} /\ received' = received + 1 /\ ~Succeeded(last'))
            => \A c \in Channels : ThresholdAfter(c) = Threshold(c)]_vars

\* C16 witness: setLevel with an unknown channel and a level name outside the
\* scale was refused with UnknownChannel after a threshold had been changed.
C16_Witness ==
    /\ last.op = "setLevel"
    /\ last.req.name = "app-logger"
    /\ last.req.level = Str("verbose")
    /\ Failed(last, "UnknownChannel")
    /\ booksLoggerLevel = "error"

\* C17: a log call of severity S on channel C is written if and only if S is no
\* more verbose than C's threshold at the time of the call, on the scale
\* error < warn < info < http < debug.
C17_EmissionGated ==
    [][\A i \in DOMAIN logged' :
            logged'[i].written
                <=> ScaleRank(logged'[i].level) <= ScaleRank(Threshold(logged'[i].logger))]_vars

\* C17 witness: with books-logger set to error and request-logger set to debug,
\* a successful create had its request-logger info call written and its
\* books-logger info and debug calls dropped, and was answered as a success.
C17_Witness ==
    /\ last.op = "create"
    /\ Succeeded(last)
    /\ booksLoggerLevel = "error"
    /\ requestLoggerLevel = "debug"
    /\ Len(logged) = 3
    /\ logged[1].written
    /\ logged[2].level = "info" /\ ~logged[2].written
    /\ logged[3].level = "debug" /\ ~logged[3].written

\* C18: the request counter equals the number of requests received, whatever
\* their kind and outcome; it never decreases; the request received k-th is
\* logged on arrival with correlation id k, before its handler's log calls.
C18_CounterCountsRequests ==
    /\ [](requestCounter = received)
    /\ [][requestCounter' >= requestCounter]_vars
    /\ [][received' = received + 1
            => /\ logged' # <<>>
               /\ logged'[1].logger = "request-logger"
               /\ logged'[1].requestId = received']_vars

\* C18 witness: a health request arrived third, the store being empty, and was
\* numbered 3.
C18_Witness ==
    /\ last.op = "health"
    /\ requestCounter = 3
    /\ logged[1].requestId = 3
    /\ books = <<>>

\* C19: every log call made for a request carries the correlation id given to
\* that request, the error-handling middleware's calls and the request-duration
\* call made on 'finish' included.
C19_LogCallsCarryOwnId ==
    \A i \in DOMAIN logged : logged[i].requestId = logged[i].op

\* C19 witness: the request-duration call of the first request is made after two
\* more requests were numbered, the latest one answered by the error-handling
\* middleware, and carries correlation id 1.
C19_Witness ==
    /\ requestCounter = 3
    /\ last.res.status = 500
    /\ Len(logged) = 1
    /\ logged[1].level = "debug"
    /\ logged[1].op = 1
    /\ logged[1].requestId = 1

\* The query with only criterion f of query q, and the ids a query matches.
Only(q, f) == [NoCriteria EXCEPT ![f] = q[f]]
Matched(q) == IdsOf(FilterBooks(q))
FoldEq(s, t) ==
    /\ Len(s) = Len(t)
    /\ \A i \in DOMAIN s : FoldRank(s[i]) = FoldRank(t[i])

\* C20: a successful query with two criteria reports exactly the records that
\* each criterion alone matches, and a query with the author criterion alone
\* reports the records whose author equals its non-empty text up to letter case.
C20_CriteriaConjoin ==
    (IsQuery(last) /\ Succeeded(last))
    => /\ \A f, g \in Fields :
            (f # g /\ Given(last.req) = {f, g})
            => Reports(last, Matched(Only(last.req, f)) \cap Matched(Only(last.req, g)))
       /\ (/\ Given(last.req) = {"author"}
           /\ last.req.author.k = "str"
           /\ last.req.author.s # <<>>)
            => Reports(last, {books[i].id : i \in {j \in DOMAIN books :
                                FoldEq(books[j].author, last.req.author.s)}})

\* C20 witness: a query with a genres and an author criterion reported some
\* record, and fewer records than its genres criterion alone matches.
C20_Witness ==
    /\ last.op = "total"
    /\ Given(last.req) = {"genres", "author"}
    /\ Succeeded(last)
    /\ last.res.result > 0
    /\ last.res.result < Cardinality(Matched(Only(last.req, "genres")))

\* An error message that begins with "Error: ".
BeginsWithError(message) == Len(message) >= 7 /\ SubSeq(message, 1, 7) = "Error: "

\* C21 (as claimed): a failed create answers 409, NotFound answers 404 and
\* InvalidGenre answers 400, each with an errorMessage that begins with
\* "Error: "; a successful store operation answers 200 with a result.
C21_FailureMapping ==
    /\ (last.op = "create" /\ ~Succeeded(last))
        => last.res.status = 409 /\ BeginsWithError(last.res.errorMessage)
    /\ (last.op \in {"get", "update", "delete"} /\ Failed(last, "NotFound"))
        => last.res.status = 404 /\ BeginsWithError(last.res.errorMessage)
    /\ (IsQuery(last) /\ Failed(last, "InvalidGenre"))
        => last.res.status = 400 /\ BeginsWithError(last.res.errorMessage)
    /\ (last.op \in {"create", "get", "update", "delete", "total", "list"} /\ Succeeded(last))
        => "result" \in DOMAIN last.res

\* C22: a create whose title no live record holds up to letter case, with a
\* year in range and a price above zero, succeeds whatever records were deleted
\* before, and its id is above every id issued before.
C22_RecreateAfterDelete ==
    [][(/\ last'.op = "create"
        /\ received' = received + 1
        /\ TitleFree(last'.req.title)
        /\ last'.req.year >= Num(1940) /\ last'.req.year <= Num(2100)
        /\ last'.req.price > 0)
       => /\ Succeeded(last')
          /\ \A i \in DOMAIN issued : last'.res.result > issued[i]
          /\ BookOf(books', last'.res.result).title = last'.req.title]_vars

\* C22 witness: the record of id 1 was deleted and a create with its title up to
\* letter case (every title here is "C" or "c") succeeded with id 2.
C22_Witness ==
    /\ last.op = "create"
    /\ Succeeded(last)
    /\ last.res.result = 2
    /\ issued = <<1, 2>>
    /\ IdsOf(books) = {2}
    /\ last.req.title = <<"c">>
====
